---- MODULE Spec2Model ----
(***************************************************************************)
(* texforge: the tiling-and-orchestration pipeline.                        *)
(*                                                                         *)
(*   ImageChunker.chunkImage / createChunk / saveMetadata                  *)
(*   TextureForge.convertFile                                              *)
(*   TextureForge.convertDirectory / buildToktxCommand                     *)
(*   TexForge.processMapToKTX2                                             *)
(*   the action of the CLI command `texforge convert`                      *)
(*                                                                         *)
(* One behaviour is one call: processMapToKTX2(options), a direct call of  *)
(* convertFile(inputPath, outputPath), or one run of the CLI convert       *)
(* command.  Every await of the source is the end of one action.  The file system, the image library    *)
(* (sharp) and the external tool (toktx) are the environment: each of      *)
(* their operations either succeeds or rejects, chosen nondeterministically*)
(* where the code cannot rule the rejection out.                           *)
(*                                                                         *)
(* Conventions                                                             *)
(*   - an optional value (x?: T) is <<>> when undefined and <<v>> when set *)
(*   - a file name `${stem}.${ext}` is the record [stem, ext]; a directory *)
(*     name has ext = ""; a path is the sequence of its components         *)
(*   - numbers are integers; Infinity (a division by 0) is a sentinel above*)
(*     every index the model reaches                                       *)
(*   - result.duration (wall-clock time) is left out of ConversionResult   *)
(***************************************************************************)
EXTENDS Integers, Sequences, FiniteSets, TLC

----------------------------------------------------------------------------
(* Bounds of the model *)

\* largest image width and height
MaxDim == 3
\* largest number of pixels of an image
MaxPixels == 9
\* largest chunkSize option
MaxChunkSize == 2
\* the chunkSize option ranges down to -MaxNegChunk
MaxNegChunk == 1
\* only images cut into at most this many tiles are run
MaxChunks == 4
\* largest size in bytes of a file written by the external tool
MaxSize == 2
\* largest number of image files in the directory the CLI converts
MaxFiles == 2

----------------------------------------------------------------------------
(* Program constants *)

DefaultChunkSize == 1024
DefaultQuality == 128
DefaultCompressionLevel == 2
ManifestVersion == 1
Infinity == 1000000

----------------------------------------------------------------------------
(* Values *)

Nullish(x, d) == IF x = <<>> THEN d ELSE x[1]

Dir(s) == [stem |-> s, ext |-> ""]
File(s, e) == [stem |-> s, ext |-> e]
Join(p, n) == Append(p, n)

IsPrefix(p, q) == Len(p) <= Len(q) /\ SubSeq(q, 1, Len(p)) = p

\* Math.min
Min(a, b) == IF a <= b THEN a ELSE b

\* Math.ceil(a / b) for a >= 0
CeilDiv(a, b) ==
    IF b = 0 THEN (IF a = 0 THEN 0 ELSE Infinity)
    ELSE IF b > 0 THEN (a + b - 1) \div b
    ELSE 0 - (a \div (0 - b))

RECURSIVE SumSeq(_)
SumSeq(s) == IF s = <<>> THEN 0 ELSE Head(s) + SumSeq(Tail(s))

\* (1 - compressed / original) * 100 as a JavaScript number: the exact
\* fraction num/den when it is finite, NaN for 0/0, -Infinity for c/0
JsRatio(compressed, original) ==
    IF original = 0
    THEN [kind |-> IF compressed = 0 THEN "NaN" ELSE "-Infinity", num |-> 0, den |-> 1]
    ELSE [kind |-> "finite", num |-> (original - compressed) * 100, den |-> original]

Zero == [kind |-> "finite", num |-> 0, den |-> 1]

\* filename.replace('.png', '.ktx2'): the first '.png' of `${stem}.${ext}`;
\* a stem holds no '.'
ReplacePng(name) == IF name.ext = "png" THEN [name EXCEPT !.ext = "ktx2"] ELSE name

ImageExts == {"png", "jpg", "jpeg", "PNG", "JPG", "JPEG"}

\* name.replace(/\.(png|jpg|jpeg)$/i, '.ktx2')
ReplaceImageExt(name) == IF name.ext \in ImageExts THEN [name EXCEPT !.ext = "ktx2"] ELSE name

ReplaceImageExtPath(p) == [p EXCEPT ![Len(p)] = ReplaceImageExt(p[Len(p)])]

----------------------------------------------------------------------------
(* State *)

VARIABLES
    call,        \* which entry point this behaviour runs
    options,     \* ProcessOptions of the call (chunkSize, mode)
    image,       \* the source image as sharp sees it
    pc,          \* position in processMapToKTX2 / chunkImage
    row, col,    \* loop counters of chunkImage
    chunksX, chunksY,
    chunks,      \* the chunks array of chunkImage
    metadata,    \* <<>> or <<the in-memory manifest>>
    dirs,        \* directories that exist
    fs,          \* path -> [size, data] for the files that exist
    index,       \* 1-based position of the for-of loop over metadata.chunks
    conversions, totalOriginalSize, totalCompressedSize,
    cf,          \* activation of convertFile
    result,      \* <<>> or <<the ProcessResult returned>>
    cli,         \* the CLI convert command: its arguments, the locals of
                 \* convertDirectory and of the action, what it printed and
                 \* the exit status
    trace        \* history: the I/O operations performed, in order

vars == <<call, options, image, pc, row, col, chunksX, chunksY, chunks, metadata,
          dirs, fs, index, conversions, totalOriginalSize, totalCompressedSize,
          cf, result, cli, trace>>

outputDir == <<Dir("out")>>
chunksDir == Join(outputDir, Dir("chunks_temp"))
ktx2Dir == Join(outputDir, Dir("chunks"))
MetadataName == File("metadata", "json")

Write(path, content) ==
    [p \in DOMAIN fs \cup {path} |-> IF p = path THEN content ELSE fs[p]]

\* fs.mkdir(path, {recursive: true})
Mkdir(path) == dirs \cup {SubSeq(path, 1, n) : n \in 1..Len(path)}

\* a removal of the tile files only, the manifest file left behind
RmFiles_tilesOnly(path) ==
    [p \in {q \in DOMAIN fs : ~(IsPrefix(path, q) /\ q[Len(q)].ext = "png")} |-> fs[p]]

\* fs.rm(path, {recursive: true, force: true})
RmFiles(path) == [p \in {q \in DOMAIN fs : ~IsPrefix(path, q)} |-> fs[p]]
RmDirs(path) == {d \in dirs : ~IsPrefix(path, d)}

Event(op, path, note) == [op |-> op, path |-> path, note |-> note]

----------------------------------------------------------------------------
(* TextureForge.convertFile *)

CfIdle ==
    [pc |-> "idle", inputPath |-> <<>>, outputPath |-> <<>>, mode |-> "etc1s",
     originalSize |-> 0, outputFilePath |-> <<>>, command |-> <<>>, result |-> <<>>]

\* the JavaScript value undefined where a string is expected
Undefined == "<undefined>"

\* {mode: options.mode ?? 'etc1s', ...options}.mode of convert and
\* convertBatch: the spread comes last, so an own key `mode` of the caller's
\* options wins over the default, with whatever value it has
ConvertMode(opts) ==
    IF opts.modeKey
    THEN Nullish(opts.mode, Undefined)
    ELSE Nullish(opts.mode, "etc1s")

\* the fields of the TextureForge the call constructs: this.mode is the
\* mode it is given, unchecked; the others fall back to the defaults
forgeMode ==
    IF call \in {"convertFile", "convertBatch"} THEN ConvertMode(options)
    ELSE IF call = "convertDirectory" THEN Nullish(options.mode, Undefined)
    ELSE Nullish(options.mode, "etc1s")
forgeQuality == Nullish(options.quality, DefaultQuality)
forgeCompressionLevel == Nullish(options.compressionLevel, DefaultCompressionLevel)
forgeMipmaps == Nullish(options.mipmaps, FALSE)
forgeNormalMap == call # "processMapToKTX2" /\ Nullish(options.normalMap, FALSE)

\* a path as the string the command line holds
NameString(n) == IF n.ext = "" THEN n.stem ELSE n.stem \o "." \o n.ext
RECURSIVE PathString(_)
PathString(p) ==
    IF Len(p) = 1 THEN NameString(p[1])
    ELSE PathString(SubSeq(p, 1, Len(p) - 1)) \o "/" \o NameString(p[Len(p)])

\* a command whose UASTC branch also passes the ETC1S quality
buildToktxCommand_mixed(mode, inputPath, outputPath) ==
    [program |-> "toktx",
     args |-> (IF mode = "etc1s"
               THEN <<"--bcmp", "--clevel", ToString(forgeCompressionLevel),
                      "--qlevel", ToString(forgeQuality),
                      "--max_endpoints", "16128", "--max_selectors", "16128">>
               ELSE IF mode = "uastc"
               THEN <<"--uastc", "--uastc_quality", "2", "--zcmp", "19",
                      "--qlevel", ToString(forgeQuality)>>
               ELSE <<>>)
              \o (IF forgeMipmaps THEN <<"--genmipmap">> ELSE <<>>)
              \o (IF forgeNormalMap THEN <<"--normal_map">> ELSE <<>>)
              \o <<"--t2", "--threads", "0">>
              \o <<PathString(outputPath), PathString(inputPath)>>]

\* buildToktxCommand: `${this.toktxPath} ${args.join(' ')}` as the program
\* (toktxPath has its default) and the list args
buildToktxCommand(mode, inputPath, outputPath) ==
    [program |-> "toktx",
     args |-> (IF mode = "etc1s"
               THEN <<"--bcmp", "--clevel", ToString(forgeCompressionLevel),
                      "--qlevel", ToString(forgeQuality),
                      "--max_endpoints", "16128", "--max_selectors", "16128">>
               ELSE IF mode = "uastc"
               THEN <<"--uastc", "--uastc_quality", "2", "--zcmp", "19">>
               ELSE <<>>)
              \o (IF forgeMipmaps THEN <<"--genmipmap">> ELSE <<>>)
              \o (IF forgeNormalMap THEN <<"--normal_map">> ELSE <<>>)
              \o <<"--t2", "--threads", "0">>
              \o <<PathString(outputPath), PathString(inputPath)>>]

\* new TextureForge({mode, ...}).convertFile(inputPath, outputPath)
CfCall(mode, inputPath, outputPath) ==
    [CfIdle EXCEPT !.pc = "called", !.mode = mode, !.inputPath = inputPath,
                   !.outputPath = outputPath]

\* the values the awaited operations reject with
ErrnoError(syscall) ==
    [isError |-> TRUE, message |-> "ENOENT: no such file or directory, " \o syscall]
SpawnError == [isError |-> TRUE, message |-> "spawn ENOENT"]
ExitError == [isError |-> TRUE, message |-> "Command failed: toktx"]

\* error instanceof Error ? error.message : String(error)
ErrorMessage(error) == IF error.isError THEN error.message ELSE "[object Object]"

\* the catch block keeping the size read before the failure
CfCatch_sizes(c, error) ==
    [c EXCEPT !.pc = "returned",
              !.result = <<[success |-> FALSE,
                            inputFile |-> c.inputPath,
                            outputFile |-> Nullish(c.outputPath, ReplaceImageExtPath(c.inputPath)),
                            originalSize |-> c.originalSize,
                            compressedSize |-> 0,
                            compressionRatio |-> Zero,
                            mode |-> c.mode,
                            error |-> ErrorMessage(error)]>>]

\* the catch block letting the error of a non-zero exit through
CfCatch_rethrow(c, error) ==
    IF error = ExitError
    THEN [c EXCEPT !.pc = "threw"]
    ELSE [c EXCEPT !.pc = "returned",
              !.result = <<[success |-> FALSE,
                            inputFile |-> c.inputPath,
                            outputFile |-> Nullish(c.outputPath, ReplaceImageExtPath(c.inputPath)),
                            originalSize |-> 0,
                            compressedSize |-> 0,
                            compressionRatio |-> Zero,
                            mode |-> c.mode,
                            error |-> ErrorMessage(error)]>>]

\* the catch block: the failed ConversionResult
CfCatch(c, error) ==
    [c EXCEPT !.pc = "returned",
              !.result = <<[success |-> FALSE,
                            inputFile |-> c.inputPath,
                            outputFile |-> Nullish(c.outputPath, ReplaceImageExtPath(c.inputPath)),
                            originalSize |-> 0,
                            compressedSize |-> 0,
                            compressionRatio |-> Zero,
                            mode |-> c.mode,
                            error |-> ErrorMessage(error)]>>]

\* the return statement of the try block
CfSuccess(c, compressedSize) ==
    [c EXCEPT !.pc = "returned",
              !.result = <<[success |-> TRUE,
                            inputFile |-> c.inputPath,
                            outputFile |-> c.outputFilePath,
                            originalSize |-> c.originalSize,
                            compressedSize |-> compressedSize,
                            compressionRatio |-> JsRatio(compressedSize, c.originalSize),
                            mode |-> c.mode]>>]

\* fs.access, fs.stat of the input, the output path, the command, and the
\* start of the subprocess
CfStart ==
    /\ cf.pc = "called"
    /\ IF cf.inputPath \in DOMAIN fs
       THEN LET out == Nullish(cf.outputPath, ReplaceImageExtPath(cf.inputPath))
            IN /\ cf' = [cf EXCEPT !.pc = "exec",
                                   !.originalSize = fs[cf.inputPath].size,
                                   !.outputFilePath = out,
                                   !.command = <<buildToktxCommand(cf.mode, cf.inputPath, out)>>]
               /\ trace' = Append(trace, Event("exec", cf.inputPath, "start"))
       ELSE /\ cf' = CfCatch(cf, ErrnoError("access"))
            /\ trace' = trace
    /\ UNCHANGED <<call, options, image, cli, pc, row, col, chunksX, chunksY, chunks,
                   metadata, dirs, fs, index, conversions, totalOriginalSize,
                   totalCompressedSize, result>>

\* how the subprocess can end: a spawn failure, a non-zero exit, or exit 0
\* having written the output file (wrote = <<size>>, the smallest or the
\* largest size) or nothing (wrote = <<>>)
ExecOutcomes ==
    [kind : {"spawn-error", "non-zero"}, wrote : {<<>>}]
    \cup [kind : {"exit-0"}, wrote : {<<>>, <<1>>, <<MaxSize>>}]

\* await execAsync(command) settles; a file the tool wrote is an "output"
\* event of the trace, before the event of the exit
CfExec ==
    /\ cf.pc = "exec"
    /\ \E o \in ExecOutcomes :
          /\ cf' = IF o.kind = "spawn-error" THEN CfCatch(cf, SpawnError)
                   ELSE IF o.kind = "non-zero" THEN CfCatch(cf, ExitError)
                   ELSE [cf EXCEPT !.pc = "statOut"]
          /\ fs' = IF o.wrote = <<>> THEN fs
                   ELSE Write(cf.outputFilePath, [size |-> o.wrote[1], data |-> <<>>])
          /\ trace' = (IF o.wrote = <<>> THEN trace
                        ELSE Append(trace, Event("output", cf.outputFilePath, "")))
                       \o <<Event("exec", cf.inputPath, o.kind)>>
    /\ UNCHANGED <<call, options, image, cli, pc, row, col, chunksX, chunksY, chunks,
                   metadata, dirs, index, conversions, totalOriginalSize,
                   totalCompressedSize, result>>

\* fs.stat of the output, the ratio and the return
CfStatOut ==
    /\ cf.pc = "statOut"
    /\ cf' = IF cf.outputFilePath \in DOMAIN fs
             THEN CfSuccess(cf, fs[cf.outputFilePath].size)
             ELSE CfCatch(cf, ErrnoError("stat"))
    /\ UNCHANGED <<call, options, image, cli, pc, row, col, chunksX, chunksY, chunks,
                   metadata, dirs, fs, index, conversions, totalOriginalSize,
                   totalCompressedSize, result, trace>>

----------------------------------------------------------------------------
(* ImageChunker *)

\* new ImageChunker({chunkSize: options.chunkSize ?? 1024, ...}).chunkSize
chunkSize == Nullish(options.chunkSize, DefaultChunkSize)

\* the format the orchestrator constructs the chunker with
chunkFormat == "png"

\* size in bytes of the tile file sharp writes for a w x h crop
TileFileSize(w, h) == w * h

\* sharp accepts the crop rectangle
ValidExtract(left, top, w, h) ==
    /\ left >= 0 /\ top >= 0 /\ w > 0 /\ h > 0
    /\ left + w <= image.width /\ top + h <= image.height

\* createChunk with pixelY taken from the column instead of the row
createChunk_pixelY(c, r, totalWidth, totalHeight) ==
    [id |-> ToString(c) \o "_" \o ToString(r),
     x |-> c, y |-> r,
     pixelX |-> c * chunkSize, pixelY |-> c * chunkSize,
     width |-> Min(chunkSize, totalWidth - c * chunkSize),
     height |-> Min(chunkSize, totalHeight - c * chunkSize),
     filename |-> File(ToString(c) \o "_" \o ToString(r), chunkFormat)]

\* createChunk with the grid coordinates x and y exchanged
createChunk_swapped(c, r, totalWidth, totalHeight) ==
    [id |-> ToString(c) \o "_" \o ToString(r),
     x |-> r, y |-> c,
     pixelX |-> c * chunkSize, pixelY |-> r * chunkSize,
     width |-> Min(chunkSize, totalWidth - c * chunkSize),
     height |-> Min(chunkSize, totalHeight - r * chunkSize),
     filename |-> File(ToString(c) \o "_" \o ToString(r), chunkFormat)]

\* the height clipped against the image's width
createChunk_heightFromWidth(c, r, totalWidth, totalHeight) ==
    [id |-> ToString(c) \o "_" \o ToString(r),
     x |-> c, y |-> r,
     pixelX |-> c * chunkSize, pixelY |-> r * chunkSize,
     width |-> Min(chunkSize, totalWidth - c * chunkSize),
     height |-> Min(chunkSize, totalWidth - r * chunkSize),
     filename |-> File(ToString(c) \o "_" \o ToString(r), chunkFormat)]

\* createChunk: the ChunkMetadata of the tile at (c, r)
createChunk(c, r, totalWidth, totalHeight) ==
    [id |-> ToString(c) \o "_" \o ToString(r),
     x |-> c, y |-> r,
     pixelX |-> c * chunkSize, pixelY |-> r * chunkSize,
     width |-> Min(chunkSize, totalWidth - c * chunkSize),
     height |-> Min(chunkSize, totalHeight - r * chunkSize),
     filename |-> File(ToString(c) \o "_" \o ToString(r), chunkFormat)]

\* the object literal mapMetadata of chunkImage
mapMetadata ==
    [version |-> ManifestVersion,
     totalWidth |-> image.width, totalHeight |-> image.height,
     chunkWidth |-> chunkSize, chunkHeight |-> chunkSize,
     chunksX |-> chunksX, chunksY |-> chunksY,
     chunks |-> chunks,
     format |-> chunkFormat]

\* JSON.stringify(metadata, null, 2) written to a file: a snapshot of the value
ManifestFile(m) == [size |-> 1, data |-> <<m>>]

\* saveMetadata: path.join(this.outputDir, 'metadata.json')
metadataPath == Join(chunksDir, MetadataName)

Rejected == pc' = "rejected"

UnchangedOrchestrator ==
    UNCHANGED <<index, conversions, totalOriginalSize, totalCompressedSize, cf, result>>

\* chunkImage: fs.mkdir(this.outputDir, {recursive: true})
ChunkMkdir ==
    /\ call = "processMapToKTX2" /\ pc = "start"
    /\ \/ /\ dirs' = Mkdir(chunksDir)
          /\ trace' = Append(trace, Event("mkdir", chunksDir, ""))
          /\ pc' = "metadata"
       \/ /\ Rejected
          /\ UNCHANGED <<dirs, trace>>
    /\ UNCHANGED <<call, options, image, cli, row, col, chunksX, chunksY, chunks, metadata, fs>>
    /\ UnchangedOrchestrator

\* the grid computed from whatever dimensions are reported, 0 included
ChunkReadMetadata_noCheck ==
    /\ pc = "metadata"
    /\ IF image.exists
       THEN /\ chunksX' = CeilDiv(image.width, chunkSize)
            /\ chunksY' = CeilDiv(image.height, chunkSize)
            /\ row' = 0 /\ col' = 0
            /\ pc' = "chunking"
       ELSE /\ Rejected
            /\ UNCHANGED <<chunksX, chunksY, row, col>>
    /\ UNCHANGED <<call, options, image, cli, chunks, metadata, dirs, fs, trace>>
    /\ UnchangedOrchestrator

\* chunkImage: image.metadata(), the dimension check and the grid
ChunkReadMetadata ==
    /\ pc = "metadata"
    /\ IF image.exists /\ image.width # 0 /\ image.height # 0
       THEN /\ chunksX' = CeilDiv(image.width, chunkSize)
            /\ chunksY' = CeilDiv(image.height, chunkSize)
            /\ row' = 0 /\ col' = 0
            /\ pc' = "chunking"
       ELSE /\ Rejected
            /\ UNCHANGED <<chunksX, chunksY, row, col>>
    /\ UNCHANGED <<call, options, image, cli, chunks, metadata, dirs, fs, trace>>
    /\ UnchangedOrchestrator

\* the loop test of chunkImage at (row, col)
MoreChunks == row < chunksY /\ col < chunksX

\* an iteration that swallows a failed tile and goes on to the next one
ChunkCreate_skipFailed ==
    /\ pc = "chunking" /\ MoreChunks
    /\ LET chunk == createChunk(col, row, image.width, image.height)
           filePath == Join(chunksDir, chunk.filename)
       IN /\ \/ /\ ValidExtract(chunk.pixelX, chunk.pixelY, chunk.width, chunk.height)
                /\ fs' = Write(filePath, [size |-> TileFileSize(chunk.width, chunk.height),
                                          data |-> <<>>])
                /\ trace' = Append(trace, Event("tile", filePath, ""))
             \/ UNCHANGED <<fs, trace>>
          /\ chunks' = Append(chunks, chunk)
          /\ IF col + 1 < chunksX
             THEN col' = col + 1 /\ row' = row
             ELSE col' = 0 /\ row' = row + 1
          /\ pc' = pc
    /\ UNCHANGED <<call, options, image, cli, chunksX, chunksY, metadata, dirs>>
    /\ UnchangedOrchestrator

\* one iteration of the nested loops: createChunk and chunks.push
ChunkCreate ==
    /\ pc = "chunking" /\ MoreChunks
    /\ LET chunk == createChunk(col, row, image.width, image.height)
           filePath == Join(chunksDir, chunk.filename)
       IN \/ /\ ValidExtract(chunk.pixelX, chunk.pixelY, chunk.width, chunk.height)
             /\ fs' = Write(filePath, [size |-> TileFileSize(chunk.width, chunk.height),
                                       data |-> <<>>])
             /\ trace' = Append(trace, Event("tile", filePath, ""))
             /\ chunks' = Append(chunks, chunk)
             /\ IF col + 1 < chunksX
                THEN col' = col + 1 /\ row' = row
                ELSE col' = 0 /\ row' = row + 1
             /\ pc' = pc
          \/ /\ Rejected
             /\ UNCHANGED <<fs, trace, chunks, row, col>>
    /\ UNCHANGED <<call, options, image, cli, chunksX, chunksY, metadata, dirs>>
    /\ UnchangedOrchestrator

\* chunkImage returning its manifest without waiting for saveMetadata
ChunkSaveMetadata_unsaved ==
    /\ pc = "chunking" /\ ~MoreChunks
    /\ metadata' = <<mapMetadata>>
    /\ pc' = "mkdirOut"
    /\ UNCHANGED <<fs, trace>>
    /\ UNCHANGED <<call, options, image, cli, row, col, chunksX, chunksY, chunks, dirs>>
    /\ UnchangedOrchestrator

\* the end of chunkImage: mapMetadata, saveMetadata, return
ChunkSaveMetadata ==
    /\ pc = "chunking" /\ ~MoreChunks
    /\ \/ /\ fs' = Write(metadataPath, ManifestFile(mapMetadata))
          /\ trace' = Append(trace, Event("persist", metadataPath, mapMetadata.format))
          /\ metadata' = <<mapMetadata>>
          /\ pc' = "mkdirOut"
       \/ /\ Rejected
          /\ UNCHANGED <<fs, trace, metadata>>
    /\ UNCHANGED <<call, options, image, cli, row, col, chunksX, chunksY, chunks, dirs>>
    /\ UnchangedOrchestrator

----------------------------------------------------------------------------
(* TexForge.processMapToKTX2 *)

UnchangedChunker == UNCHANGED <<row, col, chunksX, chunksY, chunks>>

\* fs.mkdir(ktx2Dir, {recursive: true}) and the loop's initial values
MkdirOut ==
    /\ pc = "mkdirOut"
    /\ \/ /\ dirs' = Mkdir(ktx2Dir)
          /\ trace' = Append(trace, Event("mkdir", ktx2Dir, ""))
          /\ conversions' = <<>>
          /\ totalOriginalSize' = 0
          /\ totalCompressedSize' = 0
          /\ index' = 1
          /\ pc' = "compress"
       \/ /\ Rejected
          /\ UNCHANGED <<dirs, trace, conversions, totalOriginalSize,
                         totalCompressedSize, index>>
    /\ UNCHANGED <<call, options, image, cli, metadata, fs, cf, result>>
    /\ UnchangedChunker

\* the loop walking the manifest entries from the last to the first
CompressCall_reversed ==
    /\ pc = "compress" /\ index <= Len(metadata[1].chunks)
    /\ LET chunk == metadata[1].chunks[Len(metadata[1].chunks) + 1 - index]
           inputPath == Join(chunksDir, chunk.filename)
           outputPath == Join(ktx2Dir, ReplacePng(chunk.filename))
       IN cf' = CfCall(forgeMode, inputPath, <<outputPath>>)
    /\ pc' = "awaitConvert"
    /\ UNCHANGED <<call, options, image, cli, metadata, dirs, fs, index, conversions,
                   totalOriginalSize, totalCompressedSize, result, trace>>
    /\ UnchangedChunker

\* the loop body up to the call forge.convertFile(inputPath, outputPath)
CompressCall ==
    /\ pc = "compress" /\ index <= Len(metadata[1].chunks)
    /\ LET chunk == metadata[1].chunks[index]
           inputPath == Join(chunksDir, chunk.filename)
           outputPath == Join(ktx2Dir, ReplacePng(chunk.filename))
       IN cf' = CfCall(forgeMode, inputPath, <<outputPath>>)
    /\ pc' = "awaitConvert"
    /\ UNCHANGED <<call, options, image, cli, metadata, dirs, fs, index, conversions,
                   totalOriginalSize, totalCompressedSize, result, trace>>
    /\ UnchangedChunker

\* the totals with both sums fed from originalSize
AddTotals_sameField(totals, r) ==
    IF r.success
    THEN [original |-> totals.original + r.originalSize,
          compressed |-> totals.compressed + r.originalSize]
    ELSE totals

\* the totals after one outcome
AddTotals(totals, r) ==
    IF r.success
    THEN [original |-> totals.original + r.originalSize,
          compressed |-> totals.compressed + r.compressedSize]
    ELSE totals

\* the manifest entries renamed whatever the outcome
RenameChunk_always(cs, i, r) ==
    [cs EXCEPT ![i].filename = ReplacePng(cs[i].filename)]

\* a success renaming the first entry instead of the one just compressed
RenameChunk_first(cs, i, r) ==
    IF r.success
    THEN [cs EXCEPT ![1].filename = ReplacePng(cs[1].filename)]
    ELSE cs

\* the manifest entries after one outcome
RenameChunk(cs, i, r) ==
    IF r.success
    THEN [cs EXCEPT ![i].filename = ReplacePng(cs[i].filename)]
    ELSE cs

\* conversions.push(result) skipped for a failed outcome
PushResult_onlySuccess(cs, r) == IF r.success THEN Append(cs, r) ELSE cs

\* conversions.push(result)
PushResult(cs, r) == Append(cs, r)

\* the loop body after convertFile has settled
CompressResume ==
    /\ call = "processMapToKTX2"
    /\ pc = "awaitConvert" /\ cf.pc \in {"returned", "threw"}
    /\ IF cf.pc = "threw"
       THEN /\ Rejected
            /\ UNCHANGED <<conversions, totalOriginalSize, totalCompressedSize,
                           metadata, index>>
       ELSE LET r == cf.result[1]
                totals == AddTotals([original |-> totalOriginalSize,
                                     compressed |-> totalCompressedSize], r)
            IN /\ conversions' = PushResult(conversions, r)
               /\ totalOriginalSize' = totals.original
               /\ totalCompressedSize' = totals.compressed
               /\ metadata' = <<[metadata[1] EXCEPT
                                   !.chunks = RenameChunk(metadata[1].chunks, index, r)]>>
               /\ index' = index + 1
               /\ pc' = "compress"
    /\ cf' = CfIdle
    /\ UNCHANGED <<call, options, image, cli, dirs, fs, result, trace>>
    /\ UnchangedChunker

\* fs.rm(chunksDir, {recursive: true, force: true})
Cleanup ==
    /\ pc = "compress" /\ index > Len(metadata[1].chunks)
    /\ \/ /\ fs' = RmFiles(chunksDir)
          /\ dirs' = RmDirs(chunksDir)
          /\ trace' = Append(trace, Event("rm", chunksDir, ""))
          /\ pc' = "finalize"
       \/ /\ Rejected
          /\ UNCHANGED <<fs, dirs, trace>>
    /\ UNCHANGED <<call, options, image, cli, metadata, index, conversions,
                   totalOriginalSize, totalCompressedSize, cf, result>>
    /\ UnchangedChunker

\* path.join(ktx2Dir, 'metadata.json')
finalMetadataPath == Join(ktx2Dir, MetadataName)

\* the format tag left as it is
SetFormat_keep(m) == m

\* metadata.format = 'ktx2'
SetFormat(m) == [m EXCEPT !.format = "ktx2"]

\* the returned ProcessResult
ProcessResult(m) ==
    [metadata |-> m,
     conversions |-> conversions,
     totalOriginalSize |-> totalOriginalSize,
     totalCompressedSize |-> totalCompressedSize,
     totalSaved |-> totalOriginalSize - totalCompressedSize,
     compressionRatio |-> JsRatio(totalCompressedSize, totalOriginalSize)]

\* metadata.format = 'ktx2', the final fs.writeFile and the return
Finalize ==
    /\ pc = "finalize"
    /\ metadata' = <<SetFormat(metadata[1])>>
    /\ \/ /\ fs' = Write(finalMetadataPath, ManifestFile(metadata'[1]))
          /\ trace' = Append(trace, Event("persist", finalMetadataPath, metadata'[1].format))
          /\ result' = <<ProcessResult(metadata'[1])>>
          /\ pc' = "returned"
       \/ /\ Rejected
          /\ UNCHANGED <<fs, trace, result>>
    /\ UNCHANGED <<call, options, image, cli, dirs, index, conversions,
                   totalOriginalSize, totalCompressedSize, cf>>
    /\ UnchangedChunker

----------------------------------------------------------------------------
(* A direct call of TextureForge.convertFile *)

\* forge.convertFile(inputPath, outputPath?) on a converter built with options.mode
ConvertFileCall ==
    /\ call = "convertFile" /\ pc = "start"
    /\ \E name \in {File("tex", e) : e \in {"png", "JPG", "txt"}},
          out \in {<<>>, <<Join(outputDir, File("custom", "ktx2"))>>} :
          cf' = CfCall(forgeMode, Join(outputDir, name), out)
    /\ pc' = "awaitConvert"
    /\ UNCHANGED <<call, options, image, cli, dirs, fs, metadata, index, conversions,
                   totalOriginalSize, totalCompressedSize, result, trace>>
    /\ UnchangedChunker

\* the caller receives the settled promise
ConvertFileDone ==
    /\ call = "convertFile" /\ pc = "awaitConvert" /\ cf.pc \in {"returned", "threw"}
    /\ pc' = IF cf.pc = "threw" THEN "rejected" ELSE "returned"
    /\ UNCHANGED <<call, options, image, cli, dirs, fs, metadata, index, conversions,
                   totalOriginalSize, totalCompressedSize, result, trace, cf>>
    /\ UnchangedChunker

----------------------------------------------------------------------------
(* The CLI command `texforge convert <input> [-o output] [-m mode]` and    *)
(* TextureForge.convertDirectory                                           *)

inputDir == <<Dir("in")>>

\* the image file names a directory can hold, in the order readdir lists them
ImageName(k) == File("img" \o ToString(k), IF k % 2 = 1 THEN "png" ELSE "JPG")
DirEntries == [k \in 1..(MaxFiles + 1) |->
                  IF k <= MaxFiles THEN ImageName(k) ELSE File("notes", "txt")]

\* the locals of the command before it runs
CliIdle ==
    [input |-> <<>>, output |-> <<>>, imageFiles |-> <<>>, i |-> 0,
     results |-> <<>>, onProgress |-> FALSE, progress |-> <<>>,
     successCount |-> 0, failureCount |-> 0,
     printed |-> <<>>, exitCode |-> <<>>]

\* fs.readdir(cli.input)
Listed(name) == Join(cli.input, name) \in DOMAIN fs
Readdir == SelectSeq(DirEntries, Listed)

\* /\.(png|jpg|jpeg)$/i.test(name)
IsImageName(name) == name.ext \in ImageExts
FilterImages(names) == SelectSeq(names, IsImageName)

\* process.exit(code) after a message, or the end of the action (status 0)
Exit(code, message) ==
    /\ pc' = "exited"
    /\ cli' = [cli EXCEPT !.exitCode = <<code>>, !.printed = Append(@, message)]

UnchangedProcess ==
    UNCHANGED <<call, options, image, row, col, chunksX, chunksY, chunks, metadata,
                index, conversions, totalOriginalSize, totalCompressedSize, result>>

\* TextureForge.checkToktxAvailability(): execAsync('toktx --version')
CliCheckToktx ==
    /\ call = "cli" /\ pc = "start"
    /\ \E hasToktx \in BOOLEAN :
          /\ trace' = Append(trace, Event("version", <<>>,
                                          IF hasToktx THEN "found" ELSE "not-found"))
          /\ IF hasToktx
             THEN pc' = "validate" /\ cli' = cli
             ELSE Exit(1, "toktx not found")
    /\ UNCHANGED <<dirs, fs, cf>>
    /\ UnchangedProcess

\* the mode check, new TextureForge(...) and fs.stat(input) with the branch
\* on what the input is
CliValidate ==
    /\ call = "cli" /\ pc = "validate"
    /\ IF forgeMode \notin {"etc1s", "uastc"}
       THEN Exit(1, "Invalid mode") /\ cf' = cf
       ELSE IF cli.input \in DOMAIN fs
       THEN /\ cf' = CfCall(forgeMode, cli.input, cli.output)
            /\ pc' = "convertFile"
            /\ cli' = cli
       ELSE IF cli.input \in dirs
       THEN pc' = "readdir" /\ cli' = cli /\ cf' = cf
       ELSE Exit(1, "Error") /\ cf' = cf
    /\ UNCHANGED <<dirs, fs, trace>>
    /\ UnchangedProcess

\* the single-file branch after forge.convertFile(input, options.output)
CliFileDone ==
    /\ call = "cli" /\ pc = "convertFile" /\ cf.pc \in {"returned", "threw"}
    /\ IF cf.pc = "threw" THEN Exit(1, "Error")
       ELSE IF cf.result[1].success THEN Exit(0, "Converted")
       ELSE Exit(1, "Failed")
    /\ UNCHANGED <<dirs, fs, cf, trace>>
    /\ UnchangedProcess

\* the directory branch: fs.readdir, the filter, the exit when no image is
\* found, and the call of forge.convertDirectory(input, options.output)
CliReaddir ==
    /\ call = "cli" /\ pc = "readdir"
    /\ \/ Exit(1, "Error")
       \/ IF FilterImages(Readdir) = <<>>
          THEN Exit(0, "No image files")
          ELSE pc' = "cdReaddir" /\ cli' = cli
    /\ UNCHANGED <<dirs, fs, cf, trace>>
    /\ UnchangedProcess

\* the calls that run convertDirectory: the CLI, convertBatch, and a
\* caller's own forge.convertDirectory(inputDir, outputDir, pattern, onProgress)
BatchCalls == {"cli", "convertBatch", "convertDirectory"}

\* a rejected await inside convertDirectory: the catch of the CLI action
\* exits, any other caller gets the rejection
CdReject ==
    IF call = "cli" THEN Exit(1, "Error")
    ELSE pc' = "rejected" /\ cli' = cli

\* convertBatch(inputDir, outputDir, options) or forge.convertDirectory(...)
\* entered by its caller
ConvertDirectoryCall ==
    /\ call \in {"convertBatch", "convertDirectory"} /\ pc = "start"
    /\ pc' = "cdReaddir"
    /\ UNCHANGED <<dirs, fs, cf, cli, trace>>
    /\ UnchangedProcess

\* convertDirectory: fs.readdir, the filter and the early return of []
CdReaddir ==
    /\ call \in BatchCalls /\ pc = "cdReaddir"
    /\ \/ CdReject
       \/ /\ cli' = [cli EXCEPT !.imageFiles = FilterImages(Readdir),
                                !.results = <<>>, !.i = 0]
          /\ pc' = IF FilterImages(Readdir) = <<>> THEN "cdReturn" ELSE "cdMkdir"
    /\ UNCHANGED <<dirs, fs, cf, trace>>
    /\ UnchangedProcess

\* convertDirectory: outputDir ?? inputDir
targetDir == Nullish(cli.output, cli.input)

\* convertDirectory: fs.mkdir(targetDir, {recursive: true})
CdMkdir ==
    /\ call \in BatchCalls /\ pc = "cdMkdir"
    /\ \/ /\ dirs' = Mkdir(targetDir)
          /\ trace' = Append(trace, Event("mkdir", targetDir, ""))
          /\ pc' = "cdLoop"
          /\ cli' = cli
       \/ /\ CdReject
          /\ UNCHANGED <<dirs, trace>>
    /\ UNCHANGED <<fs, cf>>
    /\ UnchangedProcess

\* convertDirectory: the loop body up to this.convertFile(inputPath, outputPath)
CdCall ==
    /\ call \in BatchCalls /\ pc = "cdLoop" /\ cli.i < Len(cli.imageFiles)
    /\ LET file == cli.imageFiles[cli.i + 1]
           inputPath == Join(cli.input, file)
           outputPath == IF cli.output # <<>>
                         THEN Join(cli.output[1], ReplaceImageExt(file))
                         ELSE ReplaceImageExtPath(inputPath)
       IN cf' = CfCall(forgeMode, inputPath, <<outputPath>>)
    /\ pc' = "cdAwait"
    /\ UNCHANGED <<dirs, fs, cli, trace>>
    /\ UnchangedProcess

\* the callback called with the 0-based loop counter
ProgressArgs_zeroBased(i, imageFiles, r) ==
    [current |-> i, total |-> Len(imageFiles), file |-> imageFiles[i + 1], result |-> r]

\* onProgress(i + 1, imageFiles.length, file, result)
ProgressArgs(i, imageFiles, r) ==
    [current |-> i + 1, total |-> Len(imageFiles), file |-> imageFiles[i + 1],
     result |-> r]

\* convertDirectory: results.push(result), the progress callback when one
\* was supplied, and the next iteration
CdResume ==
    /\ call \in BatchCalls /\ pc = "cdAwait" /\ cf.pc \in {"returned", "threw"}
    /\ IF cf.pc = "threw"
       THEN CdReject /\ trace' = trace
       ELSE /\ cli' = [cli EXCEPT
                          !.results = Append(@, cf.result[1]),
                          !.progress = IF cli.onProgress
                                       THEN Append(@, ProgressArgs(cli.i, cli.imageFiles,
                                                                   cf.result[1]))
                                       ELSE @,
                          !.i = @ + 1]
            /\ trace' = IF cli.onProgress
                        THEN Append(trace, Event("progress", cf.inputPath, ""))
                        ELSE trace
            /\ pc' = "cdLoop"
    /\ cf' = CfIdle
    /\ UNCHANGED <<dirs, fs>>
    /\ UnchangedProcess

\* convertDirectory: return results (or the [] of a directory without
\* images) to a caller other than the CLI
CdReturn ==
    /\ call \in {"convertBatch", "convertDirectory"}
    /\ \/ pc = "cdReturn"
       \/ pc = "cdLoop" /\ cli.i >= Len(cli.imageFiles)
    /\ pc' = "returned"
    /\ UNCHANGED <<dirs, fs, cf, cli, trace>>
    /\ UnchangedProcess

\* results.forEach: the number of outcomes with this value of success
Count(results, success) ==
    Cardinality({k \in 1..Len(results) : results[k].success = success})

\* a command that ends with status 0 whatever the outcomes were
ExitStatus_zero(failureCount) == 0

\* if (failureCount > 0) process.exit(1); otherwise the action ends
ExitStatus(failureCount) == IF failureCount > 0 THEN 1 ELSE 0

\* convertDirectory returns its results; the counts, the summary, the exit
CliSummary ==
    /\ call = "cli"
    /\ \/ pc = "cdReturn"
       \/ pc = "cdLoop" /\ cli.i >= Len(cli.imageFiles)
    /\ pc' = "exited"
    /\ cli' = [cli EXCEPT !.successCount = Count(cli.results, TRUE),
                          !.failureCount = Count(cli.results, FALSE),
                          !.printed = Append(@, "Summary"),
                          !.exitCode = <<ExitStatus(Count(cli.results, FALSE))>>]
    /\ UNCHANGED <<dirs, fs, cf, trace>>
    /\ UnchangedProcess

----------------------------------------------------------------------------
(* Initial states: the arguments of the call and the environment it runs in *)

NoImage == [exists |-> FALSE, width |-> 0, height |-> 0]

\* a width or height of 0 stands for a dimension sharp does not report
Images ==
    {NoImage}
    \cup {img \in [exists : {TRUE}, width : 0..MaxDim, height : 0..MaxDim] :
             img.width * img.height <= MaxPixels}

ChunkSizeOptions == {<<>>} \cup {<<s>> : s \in (0 - MaxNegChunk)..MaxChunkSize}
ModeOptions == {<<>>, <<"etc1s">>, <<"uastc">>}

\* the number of tiles a positive chunk size cuts the image into
NumTiles(img, size) ==
    IF size > 0 THEN CeilDiv(img.width, size) * CeilDiv(img.height, size) ELSE 0

NoFiles == [p \in {} |-> [size |-> 0, data |-> <<>>]]

\* what an earlier run on a 1 x 1 image has left in the output directory
OldManifest ==
    [version |-> ManifestVersion, totalWidth |-> 1, totalHeight |-> 1,
     chunkWidth |-> 1, chunkHeight |-> 1, chunksX |-> 1, chunksY |-> 1,
     chunks |-> <<[id |-> "0_0", x |-> 0, y |-> 0, pixelX |-> 0, pixelY |-> 0,
                   width |-> 1, height |-> 1, filename |-> File("0_0", "ktx2")]>>,
     format |-> "ktx2"]
OldFiles ==
    [p \in {Join(ktx2Dir, File("0_0", "ktx2")), Join(ktx2Dir, MetadataName)} |->
        IF p = Join(ktx2Dir, MetadataName)
        THEN ManifestFile(OldManifest)
        ELSE [size |-> 1, data |-> <<>>]]

\* the input files of a direct convertFile call, each of n bytes
InputFiles(n) ==
    [p \in {Join(outputDir, File("tex", e)) : e \in {"png", "JPG", "txt"}} |->
        [size |-> n, data |-> <<>>]]

InitLocals ==
    /\ pc = "start"
    /\ row = 0 /\ col = 0 /\ chunksX = 0 /\ chunksY = 0
    /\ chunks = <<>>
    /\ metadata = <<>>
    /\ index = 1
    /\ conversions = <<>>
    /\ totalOriginalSize = 0 /\ totalCompressedSize = 0
    /\ cf = CfIdle
    /\ result = <<>>
    /\ trace = <<>>

\* the modes a caller can pass at run time: the two of the type and a
\* string that is neither
RuntimeModes == {"etc1s", "uastc", "astc"}

\* Partial<ConversionOptions> as a caller of convert or convertBatch can
\* pass it: the key `mode` absent, present with the value undefined, or
\* present with a mode; quality and compressionLevel absent or at an end of
\* their documented range (1-255, 0-5); the flags absent or set
ConversionOptions ==
    {o \in [chunkSize : {<<>>},
            mode : {<<>>} \cup {<<m>> : m \in RuntimeModes},
            modeKey : BOOLEAN,
            quality : {<<>>, <<255>>},
            compressionLevel : {<<>>, <<0>>},
            mipmaps : {<<>>, <<TRUE>>},
            normalMap : {<<>>, <<TRUE>>}] :
        o.mode # <<>> => o.modeKey}

InitProcess ==
    /\ call = "processMapToKTX2"
    /\ options \in [chunkSize : ChunkSizeOptions, mode : ModeOptions,
                     modeKey : {TRUE}, quality : {<<>>}, compressionLevel : {<<>>},
                     mipmaps : {<<>>}, normalMap : {<<>>}]
    /\ image \in Images
    /\ NumTiles(image, chunkSize) <= MaxChunks
    /\ \/ fs = NoFiles /\ dirs = {}
       \/ fs = OldFiles /\ dirs = {outputDir, ktx2Dir}
    /\ cli = CliIdle

InitConvertFile ==
    /\ call = "convertFile"
    /\ options \in ConversionOptions
    /\ image = NoImage
    /\ dirs = {outputDir}
    /\ \/ fs = NoFiles
       \/ \E n \in 0..MaxSize : fs = InputFiles(n)
    /\ cli = CliIdle

\* texforge convert <input> [-o <output>] -m <mode> on a directory `in`
\* that is missing or holds some of DirEntries, each file of 1 byte
InitCli ==
    /\ call = "cli"
    /\ options \in [chunkSize : {<<>>}, mode : {<<m>> : m \in RuntimeModes},
                     modeKey : {TRUE}, quality : {<<>>}, compressionLevel : {<<>>},
                     mipmaps : {<<>>}, normalMap : {<<>>}]
    /\ image = NoImage
    /\ \E present \in SUBSET {DirEntries[k] : k \in 1..Len(DirEntries)} :
          /\ fs = [p \in {Join(inputDir, n) : n \in present} |->
                       [size |-> 1, data |-> <<>>]]
          /\ dirs \in {{inputDir}} \cup (IF present = {} THEN {{}} ELSE {})
    /\ \E input \in {inputDir, Join(inputDir, ImageName(1))},
          output \in {<<>>, <<outputDir>>} :
          cli = [CliIdle EXCEPT !.input = input, !.output = output]

\* convertBatch('in', outputDir?, options) and, on a converter of either
\* mode, forge.convertDirectory('in', outputDir?, <default pattern>,
\* onProgress?), on the directories of InitCli
InitBatch ==
    /\ \/ /\ call = "convertBatch"
          /\ options \in {o \in ConversionOptions :
                             /\ o.quality = <<>> /\ o.compressionLevel = <<>>
                             /\ o.mipmaps = <<>> /\ o.normalMap = <<>>}
          /\ \E output \in {<<>>, <<outputDir>>} :
                cli = [CliIdle EXCEPT !.input = inputDir, !.output = output]
       \/ /\ call = "convertDirectory"
          /\ options \in {o \in ConversionOptions :
                             /\ o.mode \in {<<"etc1s">>, <<"uastc">>}
                             /\ o.quality = <<>> /\ o.compressionLevel = <<>>
                             /\ o.mipmaps = <<>> /\ o.normalMap = <<>>}
          /\ \E output \in {<<>>, <<outputDir>>}, onProgress \in BOOLEAN :
                cli = [CliIdle EXCEPT !.input = inputDir, !.output = output,
                                      !.onProgress = onProgress]
    /\ image = NoImage
    /\ \E present \in SUBSET {DirEntries[k] : k \in 1..Len(DirEntries)} :
          /\ fs = [p \in {Join(inputDir, n) : n \in present} |->
                       [size |-> 1, data |-> <<>>]]
          /\ dirs \in {{inputDir}} \cup (IF present = {} THEN {{}} ELSE {})

Init == InitLocals /\ (InitProcess \/ InitConvertFile \/ InitCli \/ InitBatch)

Next ==
    \/ ChunkMkdir
    \/ ChunkReadMetadata
    \/ ChunkCreate
    \/ ChunkSaveMetadata
    \/ MkdirOut
    \/ CompressCall
    \/ CfStart
    \/ CfExec
    \/ CfStatOut
    \/ CompressResume
    \/ Cleanup
    \/ Finalize
    \/ ConvertFileCall
    \/ ConvertFileDone
    \/ CliCheckToktx
    \/ CliValidate
    \/ CliFileDone
    \/ CliReaddir
    \/ ConvertDirectoryCall
    \/ CdReaddir
    \/ CdMkdir
    \/ CdCall
    \/ CdResume
    \/ CdReturn
    \/ CliSummary

Spec == Init /\ [][Next]_vars

----------------------------------------------------------------------------
(* Properties *)

\* processMapToKTX2 has returned its report
ProcessReturned == call = "processMapToKTX2" /\ pc = "returned"

\* the positions of the trace holding an operation
Ops(op) == {k \in 1..Len(trace) : trace[k].op = op}
Persists == Ops("persist")

\* the manifests this run holds: in memory, in the files it has persisted,
\* and in the returned report
DiskManifests ==
    {fs[p].data[1] : p \in {trace[k].path : k \in Persists} \cap DOMAIN fs}
Manifests ==
    {metadata[k] : k \in 1..Len(metadata)}
    \cup DiskManifests
    \cup {result[k].metadata : k \in 1..Len(result)}

\* the pixels of a chunk rectangle
Pixels(c) ==
    {<<px, py>> : px \in c.pixelX..(c.pixelX + c.width - 1),
                  py \in c.pixelY..(c.pixelY + c.height - 1)}

Tiles(m) ==
    /\ \A i, j \in 1..Len(m.chunks) :
          i # j => Pixels(m.chunks[i]) \cap Pixels(m.chunks[j]) = {}
    /\ UNION {Pixels(m.chunks[i]) : i \in 1..Len(m.chunks)}
         = (0..(m.totalWidth - 1)) \X (0..(m.totalHeight - 1))

\* C1: for every image of width W > 0 and height H > 0 and every chunkSize
\* S > 0, the chunk rectangles chunkImage produces are pairwise disjoint and
\* their union is exactly the W x H rectangle of the image.
C1_ChunksTileImage ==
    (metadata # <<>> /\ chunkSize > 0) => Tiles(metadata[1])

\* a 3 x 3 image cut with chunkSize 2: four chunks, the last column and the
\* last row clipped
C1_Witness ==
    /\ metadata # <<>> /\ chunkSize = 2
    /\ image.width = 3 /\ image.height = 3
    /\ Len(metadata[1].chunks) = 4
    /\ metadata[1].chunks[4].width = 1 /\ metadata[1].chunks[4].height = 1

GridOk(m) ==
    /\ m.chunksX = CeilDiv(m.totalWidth, m.chunkWidth)
    /\ m.chunksY = CeilDiv(m.totalHeight, m.chunkHeight)
    /\ Len(m.chunks) = m.chunksX * m.chunksY

\* C2: every manifest the pipeline produces or persists satisfies
\* chunksX = ceil(totalWidth / chunkWidth), chunksY = ceil(totalHeight /
\* chunkHeight) and length(chunks) = chunksX * chunksY.
C2_GridInvariant == \A m \in Manifests : GridOk(m)

\* Companion to C2: in the runs with a positive chunkSize the grid invariant
\* holds of every manifest.
C2_GridInvariantPositiveChunkSize ==
    chunkSize > 0 => \A m \in Manifests : GridOk(m)

\* the identity of the entries of a manifest, in order
EntryOrder(m) == [i \in 1..Len(m.chunks) |-> <<m.chunks[i].id, m.chunks[i].x, m.chunks[i].y>>]

RowMajor(m) ==
    \A i \in 1..Len(m.chunks) :
        /\ m.chunks[i].x = (i - 1) % m.chunksX
        /\ m.chunks[i].y = (i - 1) \div m.chunksX

\* C3: manifest entries are in row-major order, entry i (0-based) having
\* x = i mod chunksX and y = i div chunksX, and the order is the same in the
\* intermediate manifest, the final manifest and the returned report, for
\* every combination of tile successes and failures.
C3_RowMajorOrder ==
    /\ \A m \in Manifests : RowMajor(m)
    /\ \A m1, m2 \in Manifests : EntryOrder(m1) = EntryOrder(m2)
    /\ \A k \in 1..Len(result) :
          /\ Len(result[k].conversions) = Len(result[k].metadata.chunks)
          /\ \A i \in 1..Len(result[k].conversions) :
                result[k].conversions[i].inputFile[Len(chunksDir) + 1].stem
                    = result[k].metadata.chunks[i].id

\* a returned 2 x 2 grid with a failed and a successful tile
C3_Witness ==
    /\ ProcessReturned
    /\ result[1].metadata.chunksX = 2 /\ result[1].metadata.chunksY = 2
    /\ ~result[1].conversions[2].success
    /\ result[1].conversions[3].success
    /\ result[1].metadata.chunks[3].x = 0 /\ result[1].metadata.chunks[3].y = 1

\* C4: after processMapToKTX2 returns, entry i of the manifest has a .ktx2
\* filename exactly when conversions[i].success, and an entry whose
\* compression failed keeps its .png filename.
C4_FilenameIffSuccess ==
    ProcessReturned =>
        LET m == result[1].metadata
            cs == result[1].conversions
        IN /\ Len(cs) = Len(m.chunks)
           /\ \A i \in 1..Len(m.chunks) :
                 /\ (m.chunks[i].filename.ext = "ktx2") <=> cs[i].success
                 /\ ~cs[i].success => m.chunks[i].filename = File(m.chunks[i].id, "png")

\* a returned run of three tiles of which the second failed
C4_Witness ==
    /\ ProcessReturned
    /\ Len(result[1].conversions) = 3
    /\ result[1].conversions[1].success
    /\ ~result[1].conversions[2].success
    /\ result[1].conversions[3].success
    /\ result[1].metadata.chunks[2].filename.ext = "png"
    /\ result[1].metadata.chunks[3].filename.ext = "ktx2"

\* the compression loop of processMapToKTX2 has been entered
LoopEntered ==
    /\ call = "processMapToKTX2"
    /\ \E k \in Ops("mkdir") : trace[k].path = ktx2Dir

\* C5: a tile's compression failure never aborts processMapToKTX2: once the
\* compression loop runs, no outcome of convertFile ends the run, every
\* manifest entry gets its convertFile call, and conversions holds exactly
\* one outcome per entry, conversions[i] being the outcome for chunks[i].
C5_EveryTileAttempted ==
    LoopEntered =>
        /\ pc \in {"compress", "awaitConvert"} =>
              /\ Len(conversions) = index - 1
              /\ index <= Len(metadata[1].chunks) + 1
        /\ pc \in {"finalize", "returned", "rejected"} =>
              Len(conversions) = Len(metadata[1].chunks)
        /\ \A i \in 1..Len(conversions) :
              /\ conversions[i].inputFile
                    = Join(chunksDir, File(metadata[1].chunks[i].id, "png"))
              /\ conversions[i].outputFile
                    = Join(ktx2Dir, File(metadata[1].chunks[i].id, "ktx2"))
        /\ pc = "returned" => result[1].conversions = conversions

\* a returned run of three tiles whose first and last compressions failed
C5_Witness ==
    /\ ProcessReturned
    /\ Len(result[1].conversions) = 3
    /\ ~result[1].conversions[1].success
    /\ result[1].conversions[2].success
    /\ ~result[1].conversions[3].success

SumOriginalOfSuccesses(cs) ==
    SumSeq([i \in 1..Len(cs) |-> IF cs[i].success THEN cs[i].originalSize ELSE 0])
SumCompressedOfSuccesses(cs) ==
    SumSeq([i \in 1..Len(cs) |-> IF cs[i].success THEN cs[i].compressedSize ELSE 0])

\* C6: in the returned report totalOriginalSize and totalCompressedSize are
\* the sums of originalSize and of compressedSize over the successful
\* outcomes only, and totalSaved = totalOriginalSize - totalCompressedSize.
C6_TotalsOverSuccesses ==
    ProcessReturned =>
        LET r == result[1]
        IN /\ r.totalOriginalSize = SumOriginalOfSuccesses(r.conversions)
           /\ r.totalCompressedSize = SumCompressedOfSuccesses(r.conversions)
           /\ r.totalSaved = r.totalOriginalSize - r.totalCompressedSize

\* three one-pixel tiles, the second failed, the two successes compressed to
\* different sizes
C6_Witness ==
    /\ ProcessReturned
    /\ Len(result[1].conversions) = 3
    /\ result[1].conversions[1].success
    /\ ~result[1].conversions[2].success
    /\ result[1].conversions[3].success
    /\ result[1].conversions[1].compressedSize = 1
    /\ result[1].conversions[3].compressedSize = 2
    /\ result[1].totalOriginalSize = 2
    /\ result[1].totalCompressedSize = 3
    /\ result[1].totalSaved = 0 - 1

\* the last operation was the subprocess of the current call ending this way
ExecEnded(kinds) ==
    /\ trace # <<>>
    /\ trace[Len(trace)].op = "exec"
    /\ trace[Len(trace)].path = cf.inputPath
    /\ trace[Len(trace)].note \in kinds

Failed(r) == ~r.success /\ "error" \in DOMAIN r /\ r.error # ""

\* C7: convertFile never raises: a missing input file, a spawn failure, a
\* non-zero exit of the tool and a missing output file after the tool ran
\* each end in a returned outcome with success = false and a non-empty
\* error text.
C7_ConvertFileNeverRaises ==
    /\ cf.pc # "threw"
    /\ call = "convertFile" => pc # "rejected"
    /\ cf.pc = "returned" =>
          /\ cf.inputPath \notin DOMAIN fs => Failed(cf.result[1])
          /\ ExecEnded({"spawn-error"}) => Failed(cf.result[1])
          /\ ExecEnded({"non-zero"}) => Failed(cf.result[1])
          /\ (ExecEnded({"exit-0"}) /\ cf.outputFilePath \notin DOMAIN fs)
                => Failed(cf.result[1])

\* a direct call whose tool exited with a non-zero status
C7_Witness ==
    /\ call = "convertFile" /\ pc = "returned"
    /\ ExecEnded({"non-zero"})
    /\ Failed(cf.result[1])

OutcomeShape(r) ==
    /\ ("error" \in DOMAIN r) <=> ~r.success
    /\ ~r.success =>
          /\ r.originalSize = 0
          /\ r.compressedSize = 0
          /\ r.compressionRatio = Zero

\* C8: every outcome of convertFile with success = false has originalSize 0,
\* compressedSize 0 and compressionRatio 0, and an outcome has the error
\* field exactly when success is false.
C8_FailedOutcomeIsZero ==
    /\ \A k \in 1..Len(cf.result) : OutcomeShape(cf.result[k])
    /\ \A i \in 1..Len(conversions) : OutcomeShape(conversions[i])

\* a failure after the size of the input had been read as 2 bytes
C8_Witness ==
    /\ cf.pc = "returned"
    /\ cf.originalSize = 2
    /\ ExecEnded({"exit-0"})
    /\ ~cf.result[1].success

\* <outputDir>/metadata.json
wellKnownManifestPath == Join(outputDir, MetadataName)

\* C9: both manifest persists of a run write the one file
\* <outputDir>/metadata.json, the later overwriting the earlier, so that
\* after the run that path holds the final manifest.
C9_SingleManifestFile ==
    ProcessReturned =>
        /\ \A k \in Persists : trace[k].path = wellKnownManifestPath
        /\ wellKnownManifestPath \in DOMAIN fs
        /\ fs[wellKnownManifestPath].data = <<result[1].metadata>>

\* Companion to C9, what the code does: the intermediate manifest goes to
\* <outputDir>/chunks_temp/metadata.json, which is deleted with the temporary
\* directory, and the final one to <outputDir>/chunks/metadata.json, which
\* holds the final manifest after the run.
C9_ManifestFilesOfTheCode ==
    ProcessReturned =>
        /\ {trace[k].path : k \in Persists} = {metadataPath, finalMetadataPath}
        /\ metadataPath \notin DOMAIN fs
        /\ wellKnownManifestPath \notin DOMAIN fs
        /\ fs[finalMetadataPath].data = <<result[1].metadata>>

\* C10: a completed run persists the manifest exactly twice: first with
\* format 'png', after every tile is written and before any compression is
\* attempted, and last with format 'ktx2', after every compression attempt;
\* the final manifest has format 'ktx2' whatever tiles failed.
C10_PersistedTwice ==
    ProcessReturned =>
        /\ Cardinality(Persists) = 2
        /\ \E first, last \in Persists :
              /\ first < last
              /\ trace[first].note = "png"
              /\ Cardinality(Ops("tile")) = Len(result[1].metadata.chunks)
              /\ \A k \in Ops("tile") : k < first
              /\ \A k \in Ops("exec") : first < k /\ k < last
              /\ trace[last].note = "ktx2"
        /\ result[1].metadata.format = "ktx2"
        /\ fs[finalMetadataPath].data[1].format = "ktx2"

\* a completed run of four tiles all of which failed
C10_Witness ==
    /\ ProcessReturned
    /\ Len(result[1].conversions) = 4
    /\ \A i \in 1..4 : ~result[1].conversions[i].success
    /\ result[1].metadata.format = "ktx2"

\* nothing of the temporary directory is left
TempDirGone ==
    /\ chunksDir \notin dirs
    /\ \A p \in DOMAIN fs : ~IsPrefix(chunksDir, p)

\* C11: once the compression loop has ended the temporary directory is
\* deleted whatever the number of failed tiles, and the steps come in the
\* order: delete the temporary directory, set format to 'ktx2', persist the
\* final manifest, return the report.
C11_FinalizeOrder ==
    LoopEntered =>
        /\ pc \in {"compress", "awaitConvert"} =>
              /\ Ops("rm") = {}
              /\ metadata[1].format = "png"
              /\ result = <<>>
        /\ pc = "finalize" =>
              /\ trace[Len(trace)] = Event("rm", chunksDir, "")
              /\ TempDirGone
              /\ metadata[1].format = "png"
              /\ Cardinality(Persists) = 1
              /\ result = <<>>
        /\ pc = "returned" =>
              /\ TempDirGone
              /\ Cardinality(Ops("rm")) = 1
              /\ \A r \in Ops("rm") :
                    /\ \A k \in Ops("exec") : k < r
                    /\ r = Len(trace) - 1
              /\ trace[Len(trace)] = Event("persist", finalMetadataPath, "ktx2")
              /\ result[1].metadata.format = "ktx2"

\* a returned run of four tiles that all failed, the temporary directory gone
C11_Witness ==
    /\ ProcessReturned
    /\ Len(result[1].conversions) = 4
    /\ \A i \in 1..4 : ~result[1].conversions[i].success
    /\ TempDirGone
    /\ Ops("rm") # {}

\* C12: chunking with a non-positive chunkSize fails with an error before any
\* I/O: no directory is created, no tile is written, no manifest is
\* persisted, and the call never returns a report.
C12_NonPositiveChunkSizeFailsFirst ==
    (call = "processMapToKTX2" /\ chunkSize <= 0) =>
        /\ pc \in {"start", "rejected"}
        /\ trace = <<>>
        /\ chunksDir \notin dirs

\* the run was rejected inside the loops of chunkImage, by a tile's extract
\* or write
ExtractionFailed ==
    call = "processMapToKTX2" /\ pc = "rejected" /\ MoreChunks

\* the tile of the grid cell (c, r) was written before step k of the trace
TileWrittenBefore(c, r, k) ==
    \E j \in 1..(k - 1) :
        trace[j] = Event("tile",
                         Join(chunksDir, File(ToString(c) \o "_" \o ToString(r), "png")),
                         "")

\* C14: if the crop/write of one tile fails during chunkImage the run
\* rejects, no manifest is persisted and no compression is attempted; a
\* manifest is only ever persisted after every tile of the grid was written.
C14_TileFailureFailsRun ==
    /\ ExtractionFailed =>
          /\ Persists = {}
          /\ Ops("exec") = {}
          /\ metadata = <<>>
          /\ conversions = <<>>
          /\ result = <<>>
    /\ \A k \in Persists :
          \A c \in 0..(chunksX - 1), r \in 0..(chunksY - 1) :
              TileWrittenBefore(c, r, k)

\* a run rejected at its third tile, two tiles already written
C14_Witness ==
    /\ ExtractionFailed
    /\ Cardinality(Ops("tile")) = 2
    /\ Len(chunks) = 2
    /\ Persists = {}

\* the source image is missing, or sharp reports no width or no height
UnreadableImage ==
    call = "processMapToKTX2" /\ (~image.exists \/ image.width = 0 \/ image.height = 0)

\* C15: if the source image is missing or its dimensions cannot be read,
\* processMapToKTX2 fails; no tile file, no manifest and no compressed file
\* is written and the external compression tool is never invoked.
C15_UnreadableImageFails ==
    UnreadableImage =>
        /\ pc \in {"start", "metadata", "rejected"}
        /\ fs \in {NoFiles, OldFiles}
        /\ Ops("tile") = {}
        /\ Persists = {}
        /\ Ops("exec") = {}
        /\ cf = CfIdle
        /\ metadata = <<>>
        /\ result = <<>>

\* the run of an image without a width, rejected by the dimension check
C15_Witness ==
    /\ UnreadableImage
    /\ image.exists /\ image.width = 0 /\ image.height = 2
    /\ pc = "rejected"
    /\ trace = <<Event("mkdir", chunksDir, "")>>

\* the compression loop went through every tile and the deletion of the
\* temporary directory was rejected
CleanupFailed ==
    /\ LoopEntered
    /\ pc = "rejected"
    /\ metadata # <<>>
    /\ conversions # <<>>
    /\ Len(conversions) = Len(metadata[1].chunks)
    /\ \A i \in 1..Len(conversions) : conversions[i].success
    /\ Ops("rm") = {}

\* C16: if deleting the temporary directory fails after all tiles have been
\* compressed, the caller of processMapToKTX2 still receives the aggregate
\* report (manifest, outcomes, totals).
C16_CleanupFailureKeepsReport ==
    CleanupFailed =>
        /\ result # <<>>
        /\ result[1].conversions = conversions

\* convertFile has returned after its subprocess exited with status 0
\* having written no file: the exit directly follows the start in the trace
ToolWroteNothing ==
    /\ cf.pc = "returned"
    /\ Len(trace) >= 2
    /\ trace[Len(trace)] = Event("exec", cf.inputPath, "exit-0")
    /\ trace[Len(trace) - 1] = Event("exec", cf.inputPath, "start")

\* C17: if the external tool exits with status 0 but writes no file at the
\* output path, convertFile returns a failed outcome, whatever was at the
\* output path before, a file of an earlier run included.
C17_NoOutputIsFailure ==
    ToolWroteNothing => Failed(cf.result[1])

\* the same when no file was at the output path before the call
C17_NoOutputNoOldFileIsFailure ==
    (ToolWroteNothing /\ cf.outputFilePath \notin DOMAIN fs) => Failed(cf.result[1])

\* the outcome the code returns when a file of an earlier run is at the path
C17_StaleOutputIsSuccess ==
    (ToolWroteNothing /\ cf.outputFilePath \in DOMAIN fs) =>
        /\ cf.result[1].success
        /\ cf.result[1].compressedSize = fs[cf.outputFilePath].size

\* the geometry of the chunk ch of an image W x H cut with chunk size S into
\* nx columns and ny rows
ChunkGeometry(ch, W, H, S, nx, ny) ==
    /\ ch.pixelX = ch.x * S
    /\ ch.pixelY = ch.y * S
    /\ ch.width = Min(S, W - ch.pixelX)
    /\ ch.height = Min(S, H - ch.pixelY)
    /\ ch.width >= 1 /\ ch.height >= 1
    /\ ch.width < S => ch.x = nx - 1
    /\ ch.height < S => ch.y = ny - 1

ManifestGeometry(m) ==
    LET W == m.totalWidth
        H == m.totalHeight
        S == m.chunkWidth
    IN /\ \A i \in 1..Len(m.chunks) :
             ChunkGeometry(m.chunks[i], W, H, S, m.chunksX, m.chunksY)
       /\ (W <= S /\ H <= S) =>
             /\ Len(m.chunks) = 1
             /\ m.chunks[1].x = 0 /\ m.chunks[1].y = 0
             /\ m.chunks[1].pixelX = 0 /\ m.chunks[1].pixelY = 0
             /\ m.chunks[1].width = W /\ m.chunks[1].height = H
       /\ W = S + 1 =>
             /\ m.chunksX = 2
             /\ {m.chunks[i].x : i \in 1..Len(m.chunks)} = {0, 1}
             /\ \A i \in 1..Len(m.chunks) :
                   m.chunks[i].x = 1 => m.chunks[i].width = 1

\* C18: for W, H, S > 0 the chunk at (col, row) has pixelX = col*S,
\* pixelY = row*S, width = min(S, W - pixelX), height = min(S, H - pixelY);
\* width and height are at least 1, only the last column is narrower than S
\* and only the last row is lower than S; W <= S and H <= S gives the one
\* chunk (0, 0, W, H), and W = S + 1 gives two columns, the second 1 wide.
C18_ChunkGeometry ==
    (call = "processMapToKTX2" /\ chunkSize > 0) =>
        /\ \A i \in 1..Len(chunks) :
              ChunkGeometry(chunks[i], image.width, image.height, chunkSize,
                            chunksX, chunksY)
        /\ \A m \in Manifests : ManifestGeometry(m)

\* a 3 x 1 image cut with chunkSize 2: two columns, the second of width 1
C18_Witness ==
    /\ metadata # <<>> /\ chunkSize = 2
    /\ image.width = 3 /\ image.height = 1
    /\ metadata[1].chunksX = 2 /\ metadata[1].chunksY = 1
    /\ Len(metadata[1].chunks) = 2
    /\ metadata[1].chunks[2].pixelX = 2
    /\ metadata[1].chunks[2].width = 1

IsExec(e) == e.op = "exec"

\* the starts and ends of the subprocesses, in the order they happened
ExecSeq == SelectSeq(trace, IsExec)

\* C19: processMapToKTX2 invokes the external compressor once per manifest
\* entry, in manifest (row-major) order, and no invocation starts before the
\* previous one has completed: at most one compression is in flight.
C19_SequentialCompression ==
    LoopEntered =>
        LET ex == ExecSeq
            entries == metadata[1].chunks
            started == (Len(ex) + 1) \div 2
        IN /\ \A k \in 1..Len(ex) :
                 IF k % 2 = 1
                 THEN ex[k].note = "start"
                 ELSE ex[k].note # "start" /\ ex[k].path = ex[k - 1].path
           /\ started <= Len(entries)
           /\ \A j \in 1..started :
                 /\ ex[2 * j - 1].path = Join(chunksDir, File(entries[j].id, "png"))
                 /\ chunkSize > 0 =>
                       /\ entries[j].x = (j - 1) % metadata[1].chunksX
                       /\ entries[j].y = (j - 1) \div metadata[1].chunksX
           /\ Len(ex) % 2 = 1 <=> cf.pc = "exec"
           /\ pc \in {"compress", "awaitConvert"} =>
                 started \in {index - 1, index}
           /\ pc \in {"finalize", "returned"} => Len(ex) = 2 * Len(entries)

\* a returned run of a 2 x 2 grid: four invocations, each started after the
\* one before it had ended
C19_Witness ==
    /\ ProcessReturned
    /\ metadata[1].chunksX = 2 /\ metadata[1].chunksY = 2
    /\ Len(ExecSeq) = 8
    /\ ExecSeq[3].path = Join(chunksDir, File("1_0", "png"))
    /\ ExecSeq[7].note = "start"

\* the call was given a compression mode that is neither 'etc1s' nor 'uastc',
\* through the CLI convert command or through new TextureForge({mode})
InvalidMode ==
    /\ call \in {"cli", "convertFile"}
    /\ forgeMode \notin {"etc1s", "uastc"}

\* C13: a compression mode other than 'etc1s' or 'uastc' is rejected with
\* an error before any I/O: no subprocess is spawned and no file is read or
\* written, through the CLI convert command and through the constructor.
C13_InvalidModeRejectedFirst ==
    InvalidMode =>
        /\ trace = <<>>
        /\ cf.pc \in {"idle", "threw"}

\* the part of C13 asked of the constructor alone: a converter with an
\* invalid mode never starts the external tool
C13_ConstructorRejectsInvalidMode ==
    (call = "convertFile" /\ forgeMode \notin {"etc1s", "uastc"}) =>
        /\ Ops("exec") = {}
        /\ cf.command = <<>>

\* what the CLI does do: an invalid mode never reaches a conversion, and the
\* only subprocess before the rejection is the one of `toktx --version`
C13_CliRejectsAfterVersionCheck ==
    (call = "cli" /\ forgeMode \notin {"etc1s", "uastc"}) =>
        /\ Ops("exec") = {}
        /\ cf = CfIdle
        /\ \A k \in 1..Len(trace) : trace[k].op = "version"
        /\ pc = "exited" => cli.exitCode = <<1>>

\* the CLI convert command was run on a directory and has exited
ExitedOnDirectory ==
    call = "cli" /\ pc = "exited" /\ cli.input = inputDir /\ inputDir \in dirs

SomeConversionFailed == \E k \in 1..Len(cli.results) : ~cli.results[k].success

\* C20 as stated: the CLI convert command on a directory exits with a
\* failure status if and only if at least one file's conversion failed.
C20_FailureExitIffConversionFailed ==
    ExitedOnDirectory => (cli.exitCode = <<1>> <=> SomeConversionFailed)

\* C20 as the code has it: when the command got as far as the summary, it
\* exits with a failure status if and only if at least one file's conversion
\* failed, every image file of the directory having its outcome; a directory
\* without image files ends with status 0; every other exit (toktx not
\* found, invalid mode, a file-system error) is a failure exit without a
\* summary and without a failed conversion being needed.
C20_ExitStatusOfDirectoryRun ==
    ExitedOnDirectory =>
        LET last == cli.printed[Len(cli.printed)]
        IN /\ cli.exitCode # <<>> /\ cli.printed # <<>>
           /\ last = "Summary" =>
                 /\ cli.exitCode = <<1>> <=> SomeConversionFailed
                 /\ cli.exitCode = <<0>> <=> ~SomeConversionFailed
                 /\ Len(cli.results) = Len(FilterImages(Readdir))
                 /\ cli.failureCount + cli.successCount = Len(cli.results)
                 /\ \A k \in 1..Len(cli.results) :
                       cli.results[k].inputFile = Join(inputDir, FilterImages(Readdir)[k])
           /\ last = "No image files" =>
                 cli.exitCode = <<0>> /\ FilterImages(Readdir) = <<>>
           /\ last \notin {"Summary", "No image files"} =>
                 /\ cli.exitCode = <<1>>
                 /\ last \in {"toktx not found", "Invalid mode", "Error"}
                 /\ ~SomeConversionFailed

\* a run on a directory of two images: the first converted, the second
\* failed, and the command exits with status 1 after the summary
C20_Witness ==
    /\ ExitedOnDirectory
    /\ cli.printed = <<"Summary">>
    /\ Len(cli.results) = 2
    /\ cli.results[1].success /\ ~cli.results[2].success
    /\ cli.exitCode = <<1>>

\* the phase of processMapToKTX2 an I/O operation belongs to: chunking (1:
\* the temporary directory, 2: the tiles, 3: the intermediate manifest),
\* compression (4: the output directory, 5: the subprocesses), and the end
\* (6: the cleanup, 7: the final manifest)
PhaseOf(e) ==
    IF e.op = "mkdir" THEN (IF e.path = chunksDir THEN 1 ELSE 4)
    ELSE IF e.op = "tile" THEN 2
    ELSE IF e.op = "persist" THEN (IF e.path = metadataPath THEN 3 ELSE 7)
    ELSE IF e.op \in {"exec", "output"} THEN 5
    ELSE 6

\* C21: in processMapToKTX2 the compression of any tile starts only after
\* every tile of the grid was written to the temporary directory and the
\* intermediate manifest was persisted; no step of a later phase begins
\* before the previous phase has fully completed.  (What precedes the first
\* subprocess precedes every later one.)
C21_PhasesInOrder ==
    call = "processMapToKTX2" =>
        /\ \A k \in 2..Len(trace) : PhaseOf(trace[k - 1]) <= PhaseOf(trace[k])
        /\ LET execs == Ops("exec") IN
           execs # {} =>
              LET k == CHOOSE first \in execs : \A other \in execs : first <= other IN
              /\ \E p \in 1..(k - 1) :
                    trace[p] = Event("persist", metadataPath, "png")
              /\ \E d \in 1..(k - 1) : trace[d] = Event("mkdir", ktx2Dir, "")
              /\ \A c \in 0..(chunksX - 1), r \in 0..(chunksY - 1) :
                    TileWrittenBefore(c, r, k)
        /\ \A k \in Ops("rm") :
              Cardinality(Ops("exec")) = 2 * Len(metadata[1].chunks)

\* the first subprocess in flight, the four tiles of a 2 x 2 grid and the
\* intermediate manifest already on disk
C21_Witness ==
    /\ call = "processMapToKTX2" /\ pc = "awaitConvert" /\ cf.pc = "exec"
    /\ index = 1
    /\ Cardinality(Ops("tile")) = 4
    /\ Cardinality(Ops("exec")) = 1
    /\ metadataPath \in DOMAIN fs

\* the argument list of the command convertFile has built
Args == cf.command[1].args

HasFlag(flag) == \E i \in 1..Len(Args) : Args[i] = flag
FlagValue(flag, value) ==
    \E i \in 1..(Len(Args) - 1) : Args[i] = flag /\ Args[i + 1] = value

Etc1sFlags == {"--bcmp", "--clevel", "--qlevel", "--max_endpoints", "--max_selectors"}
UastcFlags == {"--uastc", "--uastc_quality", "--zcmp"}

\* C22 as stated: every command built by buildToktxCommand contains the
\* flags of exactly one compression branch, the one of ETC1S or the one of
\* UASTC, and ends with the output path followed by the input path.
C22_ExactlyOneBranch ==
    cf.command # <<>> =>
        /\ \/ (\A f \in Etc1sFlags : HasFlag(f)) /\ (\A f \in UastcFlags : ~HasFlag(f))
           \/ (\A f \in UastcFlags : HasFlag(f)) /\ (\A f \in Etc1sFlags : ~HasFlag(f))
        /\ Args[Len(Args) - 1] = PathString(cf.outputFilePath)
        /\ Args[Len(Args)] = PathString(cf.inputPath)

\* C22 for the two modes of the type: in mode 'etc1s' the command has
\* --bcmp, --clevel <compressionLevel>, --qlevel <quality> and the two caps
\* and no UASTC flag; in mode 'uastc' it has --uastc, --uastc_quality 2 and
\* --zcmp 19, no ETC1S flag, and nothing of quality or compressionLevel; in
\* both the last two arguments are the output path and the input path.
C22_CommandOfValidMode ==
    (cf.command # <<>> /\ cf.mode \in {"etc1s", "uastc"}) =>
        /\ cf.mode = "etc1s" =>
              /\ HasFlag("--bcmp")
              /\ FlagValue("--clevel", ToString(forgeCompressionLevel))
              /\ FlagValue("--qlevel", ToString(forgeQuality))
              /\ FlagValue("--max_endpoints", "16128")
              /\ FlagValue("--max_selectors", "16128")
              /\ \A f \in UastcFlags : ~HasFlag(f)
        /\ cf.mode = "uastc" =>
              /\ \A f \in Etc1sFlags : ~HasFlag(f)
              /\ Args = <<"--uastc", "--uastc_quality", "2", "--zcmp", "19">>
                        \o (IF forgeMipmaps THEN <<"--genmipmap">> ELSE <<>>)
                        \o (IF forgeNormalMap THEN <<"--normal_map">> ELSE <<>>)
                        \o <<"--t2", "--threads", "0",
                             PathString(cf.outputFilePath), PathString(cf.inputPath)>>
        /\ Args[Len(Args) - 1] = PathString(cf.outputFilePath)
        /\ Args[Len(Args)] = PathString(cf.inputPath)
        /\ cf.command[1].program = "toktx"

\* a UASTC command of a converter built with quality 255 and
\* compressionLevel 0
C22_ValidModeWitness ==
    /\ cf.command # <<>> /\ cf.mode = "uastc"
    /\ options.quality = <<255>> /\ options.compressionLevel = <<0>>
    /\ Len(Args) = 10

IsBatchStep(e) == e.op \in {"exec", "progress"}

\* the subprocess starts and ends and the progress callbacks, in the order
\* they happened
BatchSeq == SelectSeq(trace, IsBatchStep)

\* C23: convertDirectory converts the matching files strictly one after
\* another; a progress callback, when supplied, is called exactly once per
\* file, after that file's conversion has finished and before the next
\* one starts, with (1-based index, number of matching files, file name,
\* that file's outcome); the returned list has one outcome per matching
\* file in the same order, and a file's failure does not stop the batch.
C23_SequentialBatch ==
    (call \in BatchCalls /\ cli.imageFiles # <<>>) =>
        LET files == cli.imageFiles
            n == Len(cli.results)
            step == IF cli.onProgress THEN 3 ELSE 2
            seq == BatchSeq
        IN /\ files = FilterImages(Readdir)
           /\ n <= Len(files)
           /\ \A k \in 1..n : cli.results[k].inputFile = Join(cli.input, files[k])
           /\ pc = "returned" => n = Len(files)
           /\ IF cli.onProgress
              THEN cli.progress =
                      [k \in 1..n |-> [current |-> k, total |-> Len(files),
                                       file |-> files[k], result |-> cli.results[k]]]
              ELSE cli.progress = <<>>
           /\ step * n <= Len(seq) /\ Len(seq) <= step * n + 2
           /\ \A k \in 1..Len(seq) :
                 LET f == ((k - 1) \div step) + 1
                     pos == (k - 1) % step
                 IN /\ f <= Len(files)
                    /\ seq[k].path = Join(cli.input, files[f])
                    /\ pos = 0 => seq[k].op = "exec" /\ seq[k].note = "start"
                    /\ pos = 1 => seq[k].op = "exec" /\ seq[k].note # "start"
                    /\ pos = 2 => seq[k].op = "progress"

\* forge.convertDirectory with a callback on a directory of two images: the
\* first conversion failed, the second succeeded, two callbacks were made
C23_Witness ==
    /\ call = "convertDirectory" /\ pc = "returned"
    /\ cli.onProgress
    /\ Len(cli.results) = 2
    /\ ~cli.results[1].success /\ cli.results[2].success
    /\ Len(cli.progress) = 2
    /\ cli.progress[2].current = 2 /\ cli.progress[2].total = 2
    /\ Len(BatchSeq) = 6

\* the fields of a manifest entry other than its filename
EntryFrame(ch) ==
    [id |-> ch.id, x |-> ch.x, y |-> ch.y, pixelX |-> ch.pixelX, pixelY |-> ch.pixelY,
     width |-> ch.width, height |-> ch.height]

\* the fields of a manifest other than its entries and its format tag
ManifestFrame(m) ==
    [version |-> m.version, totalWidth |-> m.totalWidth, totalHeight |-> m.totalHeight,
     chunkWidth |-> m.chunkWidth, chunkHeight |-> m.chunkHeight,
     chunksX |-> m.chunksX, chunksY |-> m.chunksY]

\* what a step of the compress and finalize phases may do to the manifest
ManifestStep ==
    (call = "processMapToKTX2" /\ metadata # <<>> /\ metadata' # <<>>) =>
        LET old == metadata[1]
            new == metadata'[1]
        IN /\ ManifestFrame(new) = ManifestFrame(old)
           /\ Len(new.chunks) = Len(old.chunks)
           /\ \A i \in 1..Len(old.chunks) :
                 /\ EntryFrame(new.chunks[i]) = EntryFrame(old.chunks[i])
                 /\ new.chunks[i].filename # old.chunks[i].filename =>
                       /\ pc = "awaitConvert" /\ i = index
                       /\ cf.pc = "returned" /\ cf.result[1].success
                       /\ cf.result[1].inputFile = Join(chunksDir, old.chunks[i].filename)
                       /\ old.chunks[i].filename = File(old.chunks[i].id, "png")
                       /\ new.chunks[i].filename = File(old.chunks[i].id, "ktx2")
                       /\ index' = index + 1
           /\ new.format # old.format =>
                 /\ pc = "finalize"
                 /\ old.format = "png" /\ new.format = "ktx2"

\* C24: during the compress and finalize phases of processMapToKTX2 the
\* only changes made to the manifest are the filename of an entry whose
\* compression just succeeded (changed at most once, from the intermediate
\* name to the compressed name, after that tile's outcome is known) and the
\* format tag; every other field of the manifest and of its entries, and
\* the number and order of the entries, stay unchanged.
C24_ManifestFrame == [][ManifestStep]_vars

\* in the loop after two tiles: the first entry renamed, the second, whose
\* compression failed, not, the format tag still 'png'
C24_Witness ==
    /\ call = "processMapToKTX2" /\ pc = "compress" /\ index = 3
    /\ metadata[1].chunks[1].filename = File("0_0", "ktx2")
    /\ metadata[1].chunks[2].filename.ext = "png"
    /\ conversions[1].success /\ ~conversions[2].success
    /\ metadata[1].format = "png"

\* C25: for every completed run of processMapToKTX2 the report's
\* compressionRatio is a finite number, the runs in which every tile's
\* compression failed (totalOriginalSize = 0) included.
C25_RatioIsFinite ==
    (ProcessReturned /\ chunkSize > 0) =>
        result[1].compressionRatio.kind = "finite"

\* what the code returns: the ratio is finite exactly when some tile was
\* compressed, and NaN (0 / 0) when none was
C25_RatioNaNWithoutSuccess ==
    ProcessReturned =>
        /\ result[1].totalOriginalSize > 0 <=>
              \E i \in 1..Len(result[1].conversions) : result[1].conversions[i].success
        /\ result[1].compressionRatio.kind =
              IF result[1].totalOriginalSize > 0 THEN "finite" ELSE "NaN"

\* a conversion started by convert or convertBatch
ConvenienceCall == call \in {"convertFile", "convertBatch"} /\ cf.pc # "idle"

\* C26: convert and convertBatch build a converter whose mode is 'etc1s'
\* when the caller's options carry no usable mode (the key `mode` absent, or
\* present with the value undefined), and the caller's mode otherwise.
C26_ConvertDefaultsMode ==
    ConvenienceCall =>
        cf.mode = IF options.mode = <<>> THEN "etc1s" ELSE options.mode[1]

\* what the code does: the default applies only when the key is absent; a
\* key present with the value undefined leaves the converter without a mode
C26_DefaultOnlyForAbsentKey ==
    ConvenienceCall =>
        /\ ~options.modeKey => cf.mode = "etc1s"
        /\ (options.modeKey /\ options.mode # <<>>) => cf.mode = options.mode[1]
        /\ (options.modeKey /\ options.mode = <<>>) => cf.mode = Undefined

====
